---- MODULE Spec2Model ----
(***************************************************************************)
(* Model of gold_signals_bot.py: the two JSON stores (prices.json and      *)
(* subscribers.json), signal generation, the command handlers and the      *)
(* periodic broadcast job.                                                 *)
(*                                                                         *)
(* Prices are integers in cents (the code rounds every price to two        *)
(* decimals), confidences are integers in hundredths.  A file is a record  *)
(* [kind, val]: kind "absent" (no file), "list" (a JSON list, val is the   *)
(* list), "torn" (opened for writing and truncated, nothing dumped yet:    *)
(* json.load raises on it and load_json_file returns the default),         *)
(* "scalar" (valid JSON that is not a list) or "denied" (open raises).     *)
(* Every access to a file is one step of the thread that makes it.         *)
(* Spec is the bot as the transport runs it: broadcast_job on the          *)
(* job-queue thread, the command handlers one at a time on the dispatcher  *)
(* thread.  SpecPool runs the handlers on two threads at once, SpecSeq     *)
(* never lets a tick and a handler overlap, SpecSignal serves /signal      *)
(* alone over many histories, SpecFaults starts from stores that are       *)
(* malformed or cannot be opened, SpecMain starts before main has run.     *)
(***************************************************************************)
EXTENDS Integers, Sequences, FiniteSets, TLC

\* ------------------------------------------------------------ bounds
MaxEvents == 2       \* commands received and ticks fired in one run
NumIds == 2          \* distinct chat ids

\* ------------------------------------------------------------ program constants
HistCap == 500       \* save_prices keeps lst[-500:]
Base == 200000       \* 2000.0, the price used when the history is empty
ShortPeriod == 5
LongPeriod == 20
HoldConfidence == 15 \* 0.15
SmaScale == 20       \* sma values are kept as mean * 20, exact for both periods
DefaultIntervalMin == 30  \* BROADCAST_INTERVAL_MIN when the variable is not set
MinInterval == 60    \* max(60, ...): the shortest interval, in seconds
SecondsPerMinute == 60

\* the job-queue thread runs broadcast_job, the dispatcher thread runs the command
\* handlers; Worker is a second handler thread of a multi-threaded transport
Job == "job"
Dispatcher == "dispatcher"
Worker == "worker"
WorkerSeq == <<Dispatcher, Worker>>
Workers == {WorkerSeq[i] : i \in 1..Len(WorkerSeq)}
Threads == Workers \cup {Job}
ChatIds == 1..NumIds

\* random.uniform(-4, 4), rounded with the base to two decimals: cents in -400..400
Perturbations == {-200, 0, 200}
\* round(random.uniform(0.6, 0.9), 2): hundredths in 60..90
Confidences == {60, 90}

\* the commands main registers a handler for
Commands == {"start", "help", "signal", "subscribe", "unsubscribe"}

None == <<>>
Some(v) == <<v>>

\* ------------------------------------------------------------ sequences
Range(q) == {q[i] : i \in 1..Len(q)}

Min(a, b) == IF a < b THEN a ELSE b

Max(a, b) == IF a > b THEN a ELSE b

\* lst[-n:]
LastN(lst, n) ==
    IF Len(lst) <= n THEN lst ELSE SubSeq(lst, Len(lst) - n + 1, Len(lst))

RECURSIVE SumSeq(_)
SumSeq(q) == IF q = <<>> THEN 0 ELSE Head(q) + SumSeq(Tail(q))

Flat(n, v) == [i \in 1..n |-> v]

\* list(s): the orders in which a set can be enumerated
Lists(s) ==
    {q \in [1..Cardinality(s) -> s] : \A i, j \in 1..Cardinality(s) : q[i] = q[j] => i = j}

\* ------------------------------------------------------------ storage helpers
AbsentFile == [kind |-> "absent", val |-> <<>>]
TornFile == [kind |-> "torn", val |-> <<>>]
ListFile(q) == [kind |-> "list", val |-> q]

\* what json.load returns for a valid JSON text that is not a list (a number,
\* null, an object); no price list holds -1
NotList == <<-1>>
ScalarFile == [kind |-> "scalar", val |-> NotList]
\* a file that open() refuses, for reading and for writing
DeniedFile == [kind |-> "denied", val |-> <<>>]

\* variant: the os.path.exists test is inverted, an existing file is never read
load_json_file_unread(f, default) == default

\* json.load's value when the text parses, the default when the file is absent
\* or open or json.load raise
load_json_file(f, default) == IF f.kind \in {"list", "scalar"} THEN f.val ELSE default

\* save_json_file: open(path, "w") truncates; a refused open is swallowed
open_w(f) == IF f.kind = "denied" THEN f ELSE TornFile

\* save_json_file: json.dump(obj, f) into the file that was opened
json_dump(f, obj) == IF f.kind = "denied" THEN f ELSE obj

load_prices(f) == load_json_file(f, <<>>)

\* variant: lst[:500], the oldest 500 entries are kept
save_prices_head(lst) == ListFile(SubSeq(lst, 1, Min(Len(lst), HistCap)))

save_prices(lst) == ListFile(LastN(lst, HistCap))

load_subscribers(f) == Range(load_json_file(f, <<>>))

\* set(x) raises TypeError when x is not iterable
set_raises(f) == load_json_file(f, <<>>) = NotList

save_subscribers(q) == ListFile(q)

\* ------------------------------------------------------------ signal generation
\* variant: a list of exactly `period` entries has no average yet
sma_strict(data, period) ==
    IF Len(data) <= period
    THEN None
    ELSE Some((SumSeq(LastN(data, period)) * SmaScale) \div period)

sma(data, period) ==
    IF Len(data) < period
    THEN None
    ELSE Some((SumSeq(LastN(data, period)) * SmaScale) \div period)

\* the side chosen by generate_signal from the list it holds in `prices`
Decide(p) ==
    LET sma5 == sma(p, ShortPeriod)
        sma20 == sma(p, LongPeriod)
    IN  IF sma5 # None /\ sma20 # None
        THEN IF sma5[1] > sma20[1] THEN "BUY"
             ELSE IF sma5[1] < sma20[1] THEN "SELL"
             ELSE "HOLD"
        ELSE IF Len(p) >= 2 /\ p[Len(p)] > p[Len(p) - 1] THEN "BUY"
             ELSE IF Len(p) >= 2 /\ p[Len(p)] < p[Len(p) - 1] THEN "SELL"
             ELSE "HOLD"

\* round(x, 2) of the exact quotient num/den in cents, ties to even
RoundDiv(num, den) ==
    LET q == num \div den
        r == num % den
    IN  IF 2 * r > den \/ (2 * r = den /\ q % 2 = 1) THEN q + 1 ELSE q

Actionable(side) == side \in {"BUY", "SELL"}

\* variant: the levels and the drawn confidence are filled in for every side
MakeSignalAllSides(side, price, conf) ==
    [side |-> side,
     price |-> price,
     confidence |-> conf,
     sl |-> Some(RoundDiv(price * (IF side = "BUY" THEN 995 ELSE 1005), 1000)),
     tp |-> Some(RoundDiv(price * (IF side = "BUY" THEN 102 ELSE 98), 100))]

MakeSignal(side, price, conf) ==
    [side |-> side,
     price |-> price,
     confidence |-> IF Actionable(side) THEN conf ELSE HoldConfidence,
     sl |-> IF Actionable(side)
            THEN Some(RoundDiv(price * (IF side = "BUY" THEN 995 ELSE 1005), 1000))
            ELSE None,
     tp |-> IF Actionable(side)
            THEN Some(RoundDiv(price * (IF side = "BUY" THEN 102 ELSE 98), 100))
            ELSE None]

NoSig == [side |-> "NONE", price |-> 0, confidence |-> 0, sl |-> None, tp |-> None]

\* ------------------------------------------------------------ state
VARIABLES
    pricesFile,   \* prices.json
    subsFile,     \* subscribers.json
    pc,           \* where each thread is
    chat,         \* chat_id of the command a worker handles (0: none)
    prices,       \* generate_signal's local `prices`
    gp,           \* get_price's local `prices`
    price,        \* the price get_price returned (0: none)
    sig,          \* the signal generate_signal returned
    subs,         \* the handler's or the job's local `subs`
    wasMember,    \* whether chat_id was in `subs` as loaded
    reply,        \* the text the handler replied with
    queue,        \* broadcast_job: recipients of list(subs) still to be served
    attempts,     \* broadcast_job: the send_message calls of the tick, in order
    ops,          \* commands received so far
    ticks,        \* ticks fired so far
    opsLog,       \* the subscribe/unsubscribe commands received, in order
    gens,         \* generate_signal calls that have returned
    hist0,        \* the price history the run started with
    subs0,        \* the subscriber set the run started with
    err,          \* the call whose exception left the thread's handler ("": none)
    token,        \* whether TG_BOT_TOKEN is set
    interval_min, \* BROADCAST_INTERVAL_MIN
    mainpc,       \* where main is
    handlers,     \* the commands a handler is registered for
    interval_seconds, \* the interval of the scheduled job (0: no job)
    now,          \* seconds since main started, as of the last timer event
    next_run,     \* when the job queue fires broadcast_job next
    ackedAtTick   \* how many commands of opsLog were answered when the tick fired

files == <<pricesFile, subsFile>>
gsLocals == <<prices, gp, price, sig>>
subLocals == <<chat, subs, wasMember>>
bjLocals == <<queue, attempts>>
counters == <<ops, ticks, opsLog>>
ghosts == <<gens, hist0, subs0, err>>
boot == <<token, interval_min, mainpc, handlers, interval_seconds>>
timer == <<now, next_run, ackedAtTick>>
env == <<boot, timer>>
vars == <<files, pc, gsLocals, subLocals, reply, bjLocals, counters, ghosts, env>>

\* the stores a run can start with: no files yet (first start), short histories
\* that end flat, rising or falling, and histories at and next to the cap
InitStores ==
    { <<AbsentFile, AbsentFile>>,
      <<ListFile(<<Base>>), ListFile(<<1>>)>>,
      <<ListFile(<<Base, Base + 200>>), ListFile(<<1, 2>>)>>,
      <<ListFile(Flat(HistCap - 2, Base) \o <<Base - 200>>), ListFile(<<2>>)>>,
      <<ListFile(Flat(HistCap - 1, Base) \o <<Base + 200>>), ListFile(<<>>)>> }

\* the state in which the bot starts to serve, with the stores st
Started(st) ==
    /\ pricesFile = st[1]
    /\ subsFile = st[2]
    /\ pc = [t \in Threads |-> "idle"]
    /\ chat = [t \in Threads |-> 0]
    /\ prices = [t \in Threads |-> <<>>]
    /\ gp = [t \in Threads |-> <<>>]
    /\ price = [t \in Threads |-> 0]
    /\ sig = [t \in Threads |-> NoSig]
    /\ subs = [t \in Threads |-> {}]
    /\ wasMember = [t \in Threads |-> FALSE]
    /\ reply = [t \in Threads |-> "NONE"]
    /\ queue = <<>>
    /\ attempts = <<>>
    /\ ops = 0
    /\ ticks = 0
    /\ opsLog = <<>>
    /\ gens = 0
    /\ hist0 = load_prices(pricesFile)
    /\ subs0 = IF set_raises(subsFile) THEN {} ELSE load_subscribers(subsFile)
    /\ err = [t \in Threads |-> ""]
    /\ token = TRUE
    /\ interval_min = DefaultIntervalMin
    /\ mainpc = "polling"
    /\ handlers = Commands
    /\ interval_seconds = Max(MinInterval, interval_min * SecondsPerMinute)
    /\ now = 0
    /\ next_run = interval_seconds
    /\ ackedAtTick = 0

Init == \E st \in InitStores : Started(st)

\* an update is handed to the first idle worker
FirstIdle(t) ==
    \E i \in 1..Len(WorkerSeq) :
        /\ WorkerSeq[i] = t
        /\ pc[t] = "idle"
        /\ \A j \in 1..(i - 1) : pc[WorkerSeq[j]] # "idle"

\* ------------------------------------------------------------ generate_signal
\* prices = load_prices()
GsLoad(t) ==
    /\ pc[t] = "gs_load"
    /\ prices' = [prices EXCEPT ![t] = load_prices(pricesFile)]
    /\ pc' = [pc EXCEPT ![t] = "gp_load"]
    /\ UNCHANGED <<files, gp, price, sig, subLocals, reply, bjLocals, counters, ghosts, env>>

\* get_price: prices = load_prices()
GpLoad(t) ==
    /\ pc[t] = "gp_load"
    /\ gp' = [gp EXCEPT ![t] = load_prices(pricesFile)]
    /\ pc' = [pc EXCEPT ![t] = "gp_open"]
    /\ UNCHANGED <<files, prices, price, sig, subLocals, reply, bjLocals, counters, ghosts, env>>

\* get_price: the new price is appended, save_prices opens prices.json for writing
\* (on a value that is not a list prices[-1] raises: GpRaise)
GpOpen(t) ==
    /\ pc[t] = "gp_open"
    /\ gp[t] # NotList
    /\ \E d \in Perturbations :
        LET base == IF gp[t] # <<>> THEN gp[t][Len(gp[t])] ELSE Base
            new_price == base + d
        IN  /\ gp' = [gp EXCEPT ![t] = Append(gp[t], new_price)]
            /\ price' = [price EXCEPT ![t] = new_price]
    /\ pricesFile' = open_w(pricesFile)
    /\ pc' = [pc EXCEPT ![t] = "gp_write"]
    /\ UNCHANGED <<subsFile, prices, sig, subLocals, reply, bjLocals, counters, ghosts, env>>

\* variant: the list saved is the one loaded before the new price was appended
GpWriteStale(t) ==
    /\ pc[t] = "gp_write"
    /\ pricesFile' = json_dump(pricesFile, save_prices(SubSeq(gp[t], 1, Len(gp[t]) - 1)))
    /\ pc' = [pc EXCEPT ![t] = "gs_decide"]
    /\ UNCHANGED <<subsFile, gsLocals, subLocals, reply, bjLocals, counters, ghosts, env>>

\* get_price: json.dump(lst[-500:]) and close
GpWrite(t) ==
    /\ pc[t] = "gp_write"
    /\ pricesFile' = json_dump(pricesFile, save_prices(gp[t]))
    /\ pc' = [pc EXCEPT ![t] = "gs_decide"]
    /\ UNCHANGED <<subsFile, gsLocals, subLocals, reply, bjLocals, counters, ghosts, env>>

\* generate_signal: side, confidence, sl, tp; return
\* (sma needs a list; get_price has raised before this on any other value, as
\* nothing replaces a prices.json that is not a list)
GsDecide(t) ==
    /\ pc[t] = "gs_decide"
    /\ prices[t] # NotList
    /\ \E c \in Confidences :
        sig' = [sig EXCEPT ![t] = MakeSignal(Decide(prices[t]), price[t], c)]
    /\ gens' = gens + 1
    /\ pc' = [pc EXCEPT ![t] = IF t = Job THEN "bj_check" ELSE "sig_reply"]
    /\ UNCHANGED <<files, prices, gp, price, subLocals, reply, bjLocals, counters, hist0, subs0, err, env>>

generate_signal(t) == GsLoad(t) \/ GpLoad(t) \/ GpOpen(t) \/ GpWrite(t) \/ GsDecide(t)

\* ------------------------------------------------------------ command handlers
\* the locals of generate_signal and get_price go out of scope
Return(t) ==
    /\ pc' = [pc EXCEPT ![t] = "idle"]
    /\ prices' = [prices EXCEPT ![t] = <<>>]
    /\ gp' = [gp EXCEPT ![t] = <<>>]
    /\ price' = [price EXCEPT ![t] = 0]

\* the locals of subscribe_cmd and unsubscribe_cmd go out of scope
Done(t) ==
    /\ pc' = [pc EXCEPT ![t] = "idle"]
    /\ chat' = [chat EXCEPT ![t] = 0]
    /\ subs' = [subs EXCEPT ![t] = {}]
    /\ wasMember' = [wasMember EXCEPT ![t] = FALSE]

\* /signal arrives
SignalStart(t) ==
    /\ mainpc = "polling"
    /\ "signal" \in handlers
    /\ FirstIdle(t)
    /\ ops + ticks < MaxEvents
    /\ ops' = ops + 1
    /\ pc' = [pc EXCEPT ![t] = "gs_load"]
    /\ reply' = [reply EXCEPT ![t] = "NONE"]
    /\ UNCHANGED <<files, gsLocals, subLocals, bjLocals, ticks, opsLog, ghosts, env>>

\* signal_cmd: reply_text(build_signal_text(sig))
SignalReply(t) ==
    /\ pc[t] = "sig_reply"
    /\ reply' = [reply EXCEPT ![t] = "SIGNAL"]
    /\ sig' = [sig EXCEPT ![t] = NoSig]
    /\ Return(t)
    /\ UNCHANGED <<files, subLocals, bjLocals, counters, ghosts, env>>

signal_cmd(t) == SignalStart(t) \/ SignalReply(t)

\* /subscribe arrives from chat id
SubscribeStart(t, id) ==
    /\ mainpc = "polling"
    /\ "subscribe" \in handlers
    /\ FirstIdle(t)
    /\ ops + ticks < MaxEvents
    /\ ops' = ops + 1
    /\ opsLog' = Append(opsLog, [op |-> "subscribe", id |-> id])
    /\ chat' = [chat EXCEPT ![t] = id]
    /\ pc' = [pc EXCEPT ![t] = "sub_load"]
    /\ reply' = [reply EXCEPT ![t] = "NONE"]
    /\ UNCHANGED <<files, gsLocals, subs, wasMember, bjLocals, ticks, ghosts, env>>

\* subs = load_subscribers()
SubscribeLoad(t) ==
    /\ pc[t] = "sub_load"
    /\ ~set_raises(subsFile)
    /\ subs' = [subs EXCEPT ![t] = load_subscribers(subsFile)]
    /\ wasMember' = [wasMember EXCEPT ![t] = chat[t] \in load_subscribers(subsFile)]
    /\ pc' = [pc EXCEPT ![t] = "sub_open"]
    /\ UNCHANGED <<files, gsLocals, chat, reply, bjLocals, counters, ghosts, env>>

\* subs.add(chat_id); save_subscribers opens subscribers.json for writing
SubscribeOpen(t) ==
    /\ pc[t] = "sub_open"
    /\ subs' = [subs EXCEPT ![t] = subs[t] \cup {chat[t]}]
    /\ subsFile' = open_w(subsFile)
    /\ pc' = [pc EXCEPT ![t] = "sub_write"]
    /\ UNCHANGED <<pricesFile, gsLocals, chat, wasMember, reply, bjLocals, counters, ghosts, env>>

\* json.dump(list(s)) and close
SubscribeWrite(t) ==
    /\ pc[t] = "sub_write"
    /\ \E q \in Lists(subs[t]) : subsFile' = json_dump(subsFile, save_subscribers(q))
    /\ pc' = [pc EXCEPT ![t] = "sub_reply"]
    /\ UNCHANGED <<pricesFile, gsLocals, subLocals, reply, bjLocals, counters, ghosts, env>>

\* reply_text: subscribed
SubscribeReply(t) ==
    /\ pc[t] = "sub_reply"
    /\ reply' = [reply EXCEPT ![t] = "SUBSCRIBED"]
    /\ Done(t)
    /\ UNCHANGED <<files, gsLocals, bjLocals, counters, ghosts, env>>

subscribe_cmd(t) ==
    \/ \E id \in ChatIds : SubscribeStart(t, id)
    \/ SubscribeLoad(t)
    \/ SubscribeOpen(t)
    \/ SubscribeWrite(t)
    \/ SubscribeReply(t)

\* /unsubscribe arrives from chat id
UnsubscribeStart(t, id) ==
    /\ mainpc = "polling"
    /\ "unsubscribe" \in handlers
    /\ FirstIdle(t)
    /\ ops + ticks < MaxEvents
    /\ ops' = ops + 1
    /\ opsLog' = Append(opsLog, [op |-> "unsubscribe", id |-> id])
    /\ chat' = [chat EXCEPT ![t] = id]
    /\ pc' = [pc EXCEPT ![t] = "unsub_load"]
    /\ reply' = [reply EXCEPT ![t] = "NONE"]
    /\ UNCHANGED <<files, gsLocals, subs, wasMember, bjLocals, ticks, ghosts, env>>

\* subs = load_subscribers()
UnsubscribeLoad(t) ==
    /\ pc[t] = "unsub_load"
    /\ ~set_raises(subsFile)
    /\ subs' = [subs EXCEPT ![t] = load_subscribers(subsFile)]
    /\ wasMember' = [wasMember EXCEPT ![t] = chat[t] \in load_subscribers(subsFile)]
    /\ pc' = [pc EXCEPT ![t] = "unsub_check"]
    /\ UNCHANGED <<files, gsLocals, chat, reply, bjLocals, counters, ghosts, env>>

\* variant: subs.discard(chat_id) and save_subscribers without the membership test
UnsubscribeCheckAlwaysSave(t) ==
    /\ pc[t] = "unsub_check"
    /\ subs' = [subs EXCEPT ![t] = subs[t] \ {chat[t]}]
    /\ subsFile' = open_w(subsFile)
    /\ pc' = [pc EXCEPT ![t] = "unsub_write"]
    /\ UNCHANGED <<pricesFile, gsLocals, chat, wasMember, reply, bjLocals, counters, ghosts, env>>

\* if chat_id in subs: remove it and open subscribers.json; else reply: not subscribed
UnsubscribeCheck(t) ==
    /\ pc[t] = "unsub_check"
    /\ IF chat[t] \in subs[t]
       THEN /\ subs' = [subs EXCEPT ![t] = subs[t] \ {chat[t]}]
            /\ subsFile' = open_w(subsFile)
            /\ pc' = [pc EXCEPT ![t] = "unsub_write"]
            /\ UNCHANGED <<reply, chat, wasMember>>
       ELSE /\ reply' = [reply EXCEPT ![t] = "NOT_SUBSCRIBED"]
            /\ Done(t)
            /\ UNCHANGED subsFile
    /\ UNCHANGED <<pricesFile, gsLocals, bjLocals, counters, ghosts, env>>

\* json.dump(list(s)) and close
UnsubscribeWrite(t) ==
    /\ pc[t] = "unsub_write"
    /\ \E q \in Lists(subs[t]) : subsFile' = json_dump(subsFile, save_subscribers(q))
    /\ pc' = [pc EXCEPT ![t] = "unsub_reply"]
    /\ UNCHANGED <<pricesFile, gsLocals, subLocals, reply, bjLocals, counters, ghosts, env>>

\* reply_text: unsubscribed
UnsubscribeReply(t) ==
    /\ pc[t] = "unsub_reply"
    /\ reply' = [reply EXCEPT ![t] = "UNSUBSCRIBED"]
    /\ Done(t)
    /\ UNCHANGED <<files, gsLocals, bjLocals, counters, ghosts, env>>

unsubscribe_cmd(t) ==
    \/ \E id \in ChatIds : UnsubscribeStart(t, id)
    \/ UnsubscribeLoad(t)
    \/ UnsubscribeCheck(t)
    \/ UnsubscribeWrite(t)
    \/ UnsubscribeReply(t)

\* ------------------------------------------------------------ broadcast job
\* the workers that handle a /subscribe or /unsubscribe not answered yet
Serving ==
    {t \in Workers : pc[t] \in {"sub_load", "sub_open", "sub_write", "sub_reply",
                                "unsub_load", "unsub_check", "unsub_write", "unsub_reply"}}

\* the job queue fires broadcast_job
TickStart ==
    /\ mainpc = "polling"
    /\ interval_seconds > 0
    /\ pc[Job] = "idle"
    /\ ops + ticks < MaxEvents
    /\ ticks' = ticks + 1
    /\ now' = next_run
    /\ next_run' = next_run + interval_seconds
    /\ ackedAtTick' = Len(opsLog) - Cardinality(Serving)
    /\ pc' = [pc EXCEPT ![Job] = "gs_load"]
    /\ sig' = [sig EXCEPT ![Job] = NoSig]
    /\ subs' = [subs EXCEPT ![Job] = {}]
    /\ queue' = <<>>
    /\ attempts' = <<>>
    /\ UNCHANGED <<files, prices, gp, price, chat, wasMember, reply, ops, opsLog, ghosts, boot>>

\* variant: the HOLD test is missing, every signal is broadcast
BjCheckNoSkip ==
    /\ pc[Job] = "bj_check"
    /\ pc' = [pc EXCEPT ![Job] = "bj_load"]
    /\ UNCHANGED <<files, gsLocals, subLocals, reply, bjLocals, counters, ghosts, env>>

\* if sig['side'] not in ("BUY","SELL"): return
BjCheck ==
    /\ pc[Job] = "bj_check"
    /\ IF Actionable(sig[Job].side)
       THEN /\ pc' = [pc EXCEPT ![Job] = "bj_load"]
            /\ UNCHANGED <<prices, gp, price>>
       ELSE Return(Job)
    /\ UNCHANGED <<files, sig, subLocals, reply, bjLocals, counters, ghosts, env>>

\* subs = load_subscribers(); if not subs: return; list(subs)
BjLoad ==
    /\ pc[Job] = "bj_load"
    /\ ~set_raises(subsFile)
    /\ subs' = [subs EXCEPT ![Job] = load_subscribers(subsFile)]
    /\ IF load_subscribers(subsFile) = {}
       THEN /\ Return(Job)
            /\ UNCHANGED queue
       ELSE /\ \E q \in Lists(load_subscribers(subsFile)) : queue' = q
            /\ pc' = [pc EXCEPT ![Job] = "bj_send"]
            /\ UNCHANGED <<prices, gp, price>>
    /\ UNCHANGED <<files, sig, chat, wasMember, reply, attempts, counters, ghosts, env>>

\* variant: no try/except around send_message, the first failure ends the tick
BjSendAbort ==
    /\ pc[Job] = "bj_send"
    /\ queue # <<>>
    /\ \E ok \in BOOLEAN :
        /\ attempts' = Append(attempts, [chat_id |-> Head(queue), ok |-> ok])
        /\ queue' = IF ok THEN Tail(queue) ELSE <<>>
        /\ IF ~ok \/ Tail(queue) = <<>>
           THEN Return(Job)
           ELSE UNCHANGED <<pc, prices, gp, price>>
    /\ UNCHANGED <<files, sig, subLocals, reply, counters, ghosts, env>>

\* variant: the except branch removes the chat that could not be reached
BjSendRemoveFailed ==
    /\ pc[Job] = "bj_send"
    /\ queue # <<>>
    /\ \E ok \in BOOLEAN :
        /\ attempts' = Append(attempts, [chat_id |-> Head(queue), ok |-> ok])
        /\ IF ok
           THEN UNCHANGED subsFile
           ELSE \E q \in Lists(load_subscribers(subsFile) \ {Head(queue)}) :
                    subsFile' = save_subscribers(q)
    /\ queue' = Tail(queue)
    /\ IF Tail(queue) = <<>>
       THEN Return(Job)
       ELSE UNCHANGED <<pc, prices, gp, price>>
    /\ UNCHANGED <<pricesFile, sig, subLocals, reply, counters, ghosts, env>>

\* variant: a chat that could not be reached is tried a second time
BjSendRetry ==
    /\ pc[Job] = "bj_send"
    /\ queue # <<>>
    /\ \E ok \in BOOLEAN :
        LET again == ~ok /\ \A i \in 1..Len(attempts) : attempts[i].chat_id # Head(queue)
            rest == IF again THEN queue ELSE Tail(queue)
        IN  /\ attempts' = Append(attempts, [chat_id |-> Head(queue), ok |-> ok])
            /\ queue' = rest
            /\ IF rest = <<>>
               THEN Return(Job)
               ELSE UNCHANGED <<pc, prices, gp, price>>
    /\ UNCHANGED <<files, sig, subLocals, reply, counters, ghosts, env>>

\* one turn of the loop: send_message to the next chat_id succeeds or raises
BjSend ==
    /\ pc[Job] = "bj_send"
    /\ queue # <<>>
    /\ \E ok \in BOOLEAN :
        attempts' = Append(attempts, [chat_id |-> Head(queue), ok |-> ok])
    /\ queue' = Tail(queue)
    /\ IF Tail(queue) = <<>>
       THEN Return(Job)
       ELSE UNCHANGED <<pc, prices, gp, price>>
    /\ UNCHANGED <<files, sig, subLocals, reply, counters, ghosts, env>>

broadcast_job == TickStart \/ generate_signal(Job) \/ BjCheck \/ BjLoad \/ BjSend

\* ------------------------------------------------------------ specification
Handlers(t) ==
    \/ generate_signal(t)
    \/ signal_cmd(t)
    \/ subscribe_cmd(t)
    \/ unsubscribe_cmd(t)

Next ==
    \/ broadcast_job
    \/ Handlers(Dispatcher)

Spec == Init /\ [][Next]_vars

NextPool == \E t \in Workers : Handlers(t)

SpecPool == Init /\ [][NextPool]_vars

\* the tick and the handlers of the dispatcher thread, never both in progress
NextSeq ==
    \/ pc[Dispatcher] = "idle" /\ broadcast_job
    \/ pc[Job] = "idle" /\ Handlers(Dispatcher)

SpecSeq == Init /\ [][NextSeq]_vars

\* ------------------------------------------------------------ exceptions
\* an exception leaves the handler or the tick: the transport logs it, the locals
\* go out of scope, nothing is replied
Raise(t, call) ==
    /\ err' = [err EXCEPT ![t] = call]
    /\ pc' = [pc EXCEPT ![t] = "idle"]
    /\ prices' = [prices EXCEPT ![t] = <<>>]
    /\ gp' = [gp EXCEPT ![t] = <<>>]
    /\ price' = [price EXCEPT ![t] = 0]
    /\ chat' = [chat EXCEPT ![t] = 0]
    /\ subs' = [subs EXCEPT ![t] = {}]
    /\ wasMember' = [wasMember EXCEPT ![t] = FALSE]
    /\ UNCHANGED <<files, sig, reply, bjLocals, counters, gens, hist0, subs0, env>>

\* get_price: prices[-1] (or prices.append) on a value that is not a list
GpRaise(t) ==
    /\ pc[t] = "gp_open"
    /\ gp[t] = NotList
    /\ Raise(t, "get_price")

\* load_subscribers: set() of a value that is not iterable
SubsRaise(t) ==
    /\ pc[t] \in {"sub_load", "unsub_load", "bj_load"}
    /\ set_raises(subsFile)
    /\ Raise(t, "load_subscribers")

\* the stores a run can find: healthy, not valid JSON, valid JSON that is not a
\* list, and files that cannot be opened
FaultStores ==
    { <<ListFile(<<Base, Base + 200>>), ListFile(<<1, 2>>)>>,
      <<TornFile, TornFile>>,
      <<ScalarFile, ListFile(<<1>>)>>,
      <<ListFile(<<Base, Base + 200>>), ScalarFile>>,
      <<DeniedFile, DeniedFile>> }

InitFaults == \E st \in FaultStores : Started(st)

NextFaults ==
    \/ Next
    \/ \E t \in {Job, Dispatcher} : GpRaise(t) \/ SubsRaise(t)

SpecFaults == InitFaults /\ [][NextFaults]_vars

\* ------------------------------------------------------------ main
\* variant: the token test is missing
MainTokenUnchecked ==
    /\ mainpc = "start"
    /\ mainpc' = "register"
    /\ UNCHANGED <<files, pc, gsLocals, subLocals, reply, bjLocals, counters, ghosts>>
    /\ UNCHANGED <<token, interval_min, handlers, interval_seconds, timer>>

\* if not TG_BOT_TOKEN: print the message and return
MainToken ==
    /\ mainpc = "start"
    /\ mainpc' = IF token THEN "register" ELSE "no_token"
    /\ UNCHANGED <<files, pc, gsLocals, subLocals, reply, bjLocals, counters, ghosts>>
    /\ UNCHANGED <<token, interval_min, handlers, interval_seconds, timer>>

\* the five dp.add_handler calls
MainRegister ==
    /\ mainpc = "register"
    /\ handlers' = Commands
    /\ mainpc' = "schedule"
    /\ UNCHANGED <<files, pc, gsLocals, subLocals, reply, bjLocals, counters, ghosts>>
    /\ UNCHANGED <<token, interval_min, interval_seconds, timer>>

\* variant: interval_seconds = BROADCAST_INTERVAL_MIN * 60, without the floor
MainScheduleNoFloor ==
    /\ mainpc = "schedule"
    /\ interval_seconds' = interval_min * SecondsPerMinute
    /\ next_run' = now + interval_seconds'
    /\ mainpc' = "polling"
    /\ UNCHANGED <<files, pc, gsLocals, subLocals, reply, bjLocals, counters, ghosts>>
    /\ UNCHANGED <<token, interval_min, handlers, now, ackedAtTick>>

\* interval_seconds = max(60, BROADCAST_INTERVAL_MIN * 60);
\* run_repeating(broadcast_job, interval=interval_seconds, first=interval_seconds);
\* start_polling
MainSchedule ==
    /\ mainpc = "schedule"
    /\ interval_seconds' = Max(MinInterval, interval_min * SecondsPerMinute)
    /\ next_run' = now + interval_seconds'
    /\ mainpc' = "polling"
    /\ UNCHANGED <<files, pc, gsLocals, subLocals, reply, bjLocals, counters, ghosts>>
    /\ UNCHANGED <<token, interval_min, handlers, now, ackedAtTick>>

main == MainToken \/ MainRegister \/ MainSchedule

\* the values BROADCAST_INTERVAL_MIN is given
IntervalMins == {-1, 0, 1, 2}

MainStores == { <<ListFile(<<Base, Base + 200>>), ListFile(<<1>>)>> }

\* the process has been launched, main has not run yet
InitMain ==
    /\ \E st \in MainStores :
        /\ pricesFile = st[1]
        /\ subsFile = st[2]
    /\ pc = [t \in Threads |-> "idle"]
    /\ chat = [t \in Threads |-> 0]
    /\ prices = [t \in Threads |-> <<>>]
    /\ gp = [t \in Threads |-> <<>>]
    /\ price = [t \in Threads |-> 0]
    /\ sig = [t \in Threads |-> NoSig]
    /\ subs = [t \in Threads |-> {}]
    /\ wasMember = [t \in Threads |-> FALSE]
    /\ reply = [t \in Threads |-> "NONE"]
    /\ queue = <<>>
    /\ attempts = <<>>
    /\ ops = 0
    /\ ticks = 0
    /\ opsLog = <<>>
    /\ gens = 0
    /\ hist0 = load_prices(pricesFile)
    /\ subs0 = load_subscribers(subsFile)
    /\ err = [t \in Threads |-> ""]
    /\ token \in BOOLEAN
    /\ interval_min \in IntervalMins
    /\ mainpc = "start"
    /\ handlers = {}
    /\ interval_seconds = 0
    /\ now = 0
    /\ next_run = 0
    /\ ackedAtTick = 0

NextMain == main \/ Next

SpecMain == InitMain /\ [][NextMain]_vars

\* /signal commands alone, one at a time, over a wider choice of histories: every
\* list of up to two prices, and lists of 3, 4, 19, 20 and 21 prices that are flat
\* up to their last two entries
Endings == UNION {[1..n -> {Base + d : d \in Perturbations}] : n \in 0..2}
FlatLens == {1, 2, LongPeriod - 3, LongPeriod - 2, LongPeriod - 1}
SignalHistories ==
    Endings \cup {Flat(k, Base) \o e : k \in FlatLens, e \in [1..2 -> {Base + d : d \in Perturbations}]}

SignalStores ==
    {<<IF h = <<>> THEN AbsentFile ELSE ListFile(h), AbsentFile>> : h \in SignalHistories}

InitSignal == \E st \in SignalStores : Started(st)

NextSignal ==
    \/ generate_signal(Dispatcher)
    \/ signal_cmd(Dispatcher)

SpecSignal == InitSignal /\ [][NextSignal]_vars

\* ------------------------------------------------------------ properties
AllIdle == \A t \in Threads : pc[t] = "idle"

TickDone == ticks > 0 /\ pc[Job] = "idle"

Attempted == {attempts[i].chat_id : i \in 1..Len(attempts)}

Failed == {attempts[i].chat_id : i \in {j \in 1..Len(attempts) : ~attempts[j].ok}}

\* a step of the job-queue thread
JobMoved ==
    <<pc[Job], queue, attempts>>' # <<pc[Job], queue, attempts>>

\* C1: a tick whose signal is not BUY or SELL makes no send_message call, whatever
\* the subscriber set is.
HoldTickSendsNothing ==
    ~Actionable(sig[Job].side) => (attempts = <<>> /\ queue = <<>>)

HoldTickWitness ==
    /\ TickDone
    /\ sig[Job].side = "HOLD"
    /\ load_subscribers(subsFile) # {}
    /\ attempts = <<>>

\* C2: in a BUY/SELL tick a failed delivery does not stop the loop: while the tick
\* delivers, every recipient of the snapshot is either attempted or still queued,
\* and when the tick has returned every recipient has been attempted, whichever
\* of them failed.
FailureIsolated ==
    /\ pc[Job] = "bj_send" =>
        (queue # <<>> /\ Attempted \cup Range(queue) = subs[Job])
    /\ (TickDone /\ Actionable(sig[Job].side)) => Attempted = subs[Job]

FailureIsolatedWitness ==
    /\ TickDone
    /\ Actionable(sig[Job].side)
    /\ Len(attempts) = 2
    /\ ~attempts[1].ok
    /\ Attempted = subs[Job]
    /\ Cardinality(subs[Job]) = 2

\* C3: no step of broadcast_job changes subscribers.json, a failed delivery
\* included: a failing recipient is not removed.
TickKeepsSubscribers ==
    [][JobMoved => subsFile' = subsFile]_vars

TickKeepsSubscribersWitness ==
    /\ TickDone
    /\ Failed # {}
    /\ Failed \subseteq load_subscribers(subsFile)

\* the subscriber sets that the commands of opsLog with indices in I can leave,
\* applied one after the other in any order, starting from S
Apply(S, o) == IF o.op = "subscribe" THEN S \cup {o.id} ELSE S \ {o.id}

RECURSIVE Outcomes(_, _)
Outcomes(S, I) ==
    IF I = {} THEN {S}
    ELSE UNION {Outcomes(Apply(S, opsLog[i]), I \ {i}) : i \in I}

NoLostPrice ==
    (AllIdle /\ Len(hist0) + gens <= HistCap) =>
        Len(load_prices(pricesFile)) = Len(hist0) + gens

\* the acknowledgement subscribe_cmd sends to a newly added subscriber
NewlyAddedAck == "SUBSCRIBED"

\* C6: subscribing an id that is already a member leaves the persisted set as it
\* was and is answered with a reply other than the one for a newly added id.
AddIdempotent ==
    [][\A t \in Workers :
        /\ (pc[t] = "sub_write" /\ pc'[t] = "sub_reply" /\ wasMember[t]) =>
              load_subscribers(subsFile') = subs[t]
        /\ (pc[t] = "sub_reply" /\ pc'[t] = "idle" /\ wasMember[t]) =>
              reply'[t] # NewlyAddedAck]_vars

\* C7: unsubscribing an id that is not a member is answered "not subscribed",
\* leaves subscribers.json untouched and returns without opening it for writing.
RemoveNonMember ==
    [][\A t \in Workers :
        /\ (pc[t] = "unsub_load" /\ pc'[t] = "unsub_check"
                /\ chat[t] \notin load_subscribers(subsFile)) =>
              chat[t] \notin subs'[t]
        /\ (pc[t] = "unsub_check" /\ pc'[t] # "unsub_check" /\ chat[t] \notin subs[t]) =>
              /\ reply'[t] = "NOT_SUBSCRIBED"
              /\ subsFile' = subsFile
              /\ pc'[t] = "idle"]_vars

RemoveNonMemberWitness ==
    /\ ops = 1
    /\ opsLog = <<[op |-> "unsubscribe", id |-> 1]>>
    /\ pc[Dispatcher] = "idle"
    /\ reply[Dispatcher] = "NOT_SUBSCRIBED"
    /\ subs0 = {2}
    /\ subsFile = ListFile(<<2>>)

IsSuffix(f, l) ==
    /\ Len(f) <= Len(l)
    /\ \A i \in 1..Len(f) : f[i] = l[Len(l) - Len(f) + i]

\* C8: prices.json never holds more than 500 entries, and what get_price writes
\* is the end of its list: on overflow the oldest entries are dropped.
HistoryBounded ==
    [][/\ Len(pricesFile'.val) <= HistCap
       /\ \A t \in Threads :
            (pc[t] = "gp_write" /\ pc'[t] = "gs_decide") =>
                /\ pricesFile'.kind = "list"
                /\ Len(pricesFile'.val) = Min(Len(gp[t]), HistCap)
                /\ IsSuffix(pricesFile'.val, gp[t])]_vars

HistoryOverflowWitness ==
    \E t \in Threads :
        /\ pc[t] = "gs_decide"
        /\ Len(hist0) = HistCap
        /\ Len(gp[t]) = HistCap + 1
        /\ pricesFile = ListFile(Tail(gp[t]))

\* C9: in every signal generate_signal returns, sl and tp are present exactly
\* when side is BUY or SELL, and a HOLD signal has neither and confidence 0.15.
SignalShape ==
    \A t \in Threads :
        sig[t] # NoSig =>
            /\ sig[t].side \in {"BUY", "SELL", "HOLD"}
            /\ (sig[t].sl # None) <=> Actionable(sig[t].side)
            /\ (sig[t].tp # None) <=> Actionable(sig[t].side)
            /\ sig[t].side = "HOLD" =>
                (sig[t].sl = None /\ sig[t].tp = None /\ sig[t].confidence = HoldConfidence)

SignalShapeWitness ==
    /\ sig[Job].side = "HOLD"
    /\ sig[Job].confidence = HoldConfidence
    /\ Actionable(sig[Dispatcher].side)
    /\ sig[Dispatcher].sl # None

Returned(t) == pc[t] \in {"sig_reply", "bj_check"}

\* C10: the side generate_signal returns is the one decided over the history
\* with the new price appended; from [2000.00] and a perturbation of +2 the
\* price is 2002.00, the history has two entries and the side is BUY.
DecisionIncludesNewPrice ==
    \A t \in Threads :
        Returned(t) =>
            /\ sig[t].side = Decide(gp[t])
            /\ (prices[t] = <<Base>> /\ gp[t] = <<Base, Base + 200>>) =>
                (sig[t].price = Base + 200 /\ sig[t].side = "BUY")

\* the momentum rule, on the last two entries of a list
MomentumSide(p) ==
    IF Len(p) < 2 THEN "HOLD"
    ELSE IF p[Len(p)] > p[Len(p) - 1] THEN "BUY"
    ELSE IF p[Len(p)] < p[Len(p) - 1] THEN "SELL"
    ELSE "HOLD"

\* the moving-average rule, on the sums of the last 5 and the last 20 entries
AverageSide(p) ==
    LET s5 == SumSeq(LastN(p, ShortPeriod)) * LongPeriod
        s20 == SumSeq(LastN(p, LongPeriod)) * ShortPeriod
    IN  IF s5 > s20 THEN "BUY" ELSE IF s5 < s20 THEN "SELL" ELSE "HOLD"

\* C11: the rule is chosen by the length of the history generate_signal decides
\* on: with fewer than 5 entries the side is the momentum side (HOLD below two
\* entries), with 20 or more it is the side of the short average against the long
\* one, whatever the momentum says.
RuleByLength ==
    \A t \in Threads :
        Returned(t) =>
            /\ Len(prices[t]) < ShortPeriod => sig[t].side = MomentumSide(prices[t])
            /\ Len(prices[t]) >= LongPeriod => sig[t].side = AverageSide(prices[t])

RuleByLengthWitness ==
    /\ Returned(Dispatcher)
    /\ Len(prices[Dispatcher]) >= LongPeriod
    /\ MomentumSide(prices[Dispatcher]) = "SELL"
    /\ sig[Dispatcher].side = "BUY"

\* C12: whatever the stores hold, load_prices hands its caller a list and
\* load_subscribers hands its caller a set, and neither raises.
LoadsNeverFail ==
    \A t \in Threads :
        /\ err[t] # "load_subscribers"
        /\ prices[t] # NotList
        /\ gp[t] # NotList

\* a step the tick in progress can take
JobStep == broadcast_job \/ GpRaise(Job) \/ SubsRaise(Job)

\* C13: a tick never ends with an exception and is never stuck, whatever the
\* stores hold, whether they can be read or written, and whichever deliveries
\* fail.
TickNeverRaises ==
    /\ err[Job] = ""
    /\ pc[Job] # "idle" => ENABLED JobStep

\* the places of a handler that serves /signal
SignalPcs == {"gs_load", "gp_load", "gp_open", "gp_write", "gs_decide", "sig_reply"}

\* C14: a handler ends only by replying: /signal with a signal of any side,
\* /subscribe and /unsubscribe with their confirmation, whatever the stores hold
\* and whether they can be read or written.
RequestsAnswered ==
    [][\A t \in Workers :
        (pc[t] # "idle" /\ pc'[t] = "idle") =>
            /\ reply'[t] # "NONE"
            /\ pc[t] \in SignalPcs => (reply'[t] = "SIGNAL" /\ sig[t] # NoSig)]_vars

\* C15: the recipients of a BUY/SELL tick are the ids read into `subs` when the
\* delivery starts: while the tick delivers, the ids attempted and the ids still
\* queued are those ids, each once; when it has returned, each of them has been
\* attempted once and nobody else, failed or not, whatever the handlers did to
\* subscribers.json in the meantime.
SnapshotRecipients ==
    /\ pc[Job] = "bj_send" =>
        /\ Attempted \cup Range(queue) = subs[Job]
        /\ Len(attempts) + Len(queue) = Cardinality(subs[Job])
    /\ (TickDone /\ Actionable(sig[Job].side)) =>
        /\ Attempted = subs[Job]
        /\ Len(attempts) = Cardinality(subs[Job])

\* the first delivery failed and the next recipient has unsubscribed since the
\* ids were read
SnapshotRecipientsWitness ==
    /\ pc[Job] = "bj_send"
    /\ Len(attempts) = 1
    /\ ~attempts[1].ok
    /\ pc[Dispatcher] = "idle"
    /\ reply[Dispatcher] = "UNSUBSCRIBED"
    /\ Head(queue) \in subs[Job] \ load_subscribers(subsFile)

NoTokenNoBot ==
    ~token =>
        /\ mainpc \in {"start", "no_token"}
        /\ handlers = {}
        /\ interval_seconds = 0
        /\ ops = 0 /\ ticks = 0
        /\ AllIdle

NoTokenNoBotWitness == ~token /\ mainpc = "no_token"

\* C18: the job is scheduled every BROADCAST_INTERVAL_MIN minutes, but never
\* more often than every 60 seconds, zero and negative settings included, and
\* the k-th tick fires k whole intervals after main scheduled it, the first one
\* included.
IntervalFloor ==
    mainpc = "polling" =>
        /\ interval_seconds >= 60
        /\ interval_min >= 1 => interval_seconds = 60 * interval_min
        /\ interval_min < 1 => interval_seconds = 60
        /\ now = ticks * interval_seconds
        /\ next_run = now + interval_seconds

IntervalFloorWitness ==
    /\ interval_min < 0
    /\ ticks = 1
    /\ now = 60

\* C19: run without interleaving, each generate_signal call, of a tick or of
\* /signal, appends one price: its save leaves the last 500 entries of the
\* history it found followed by the new price, and between calls the history has
\* grown by one entry per tick fired and per /signal served (up to the cap),
\* whatever side the ticks produced and whether or not anyone is subscribed.
OnePricePerCall ==
    [][/\ \A t \in Threads :
            (pc[t] = "gp_write" /\ pc'[t] = "gs_decide") =>
                pricesFile' = ListFile(LastN(Append(prices[t], price[t]), HistCap))
       /\ AllIdle' =>
            Len(load_prices(pricesFile')) =
                Min(HistCap, Len(hist0) + ticks' + (ops' - Len(opsLog')))]_vars

\* a tick on an empty history: HOLD, nobody subscribed, one price stored
OnePricePerCallWitness ==
    /\ TickDone
    /\ sig[Job].side = "HOLD"
    /\ load_subscribers(subsFile) = {}
    /\ hist0 = <<>>
    /\ load_prices(pricesFile) = <<sig[Job].price>>

\* the commands answered before the latest tick fired, and those received since
AckedBefore == SubSeq(opsLog, 1, ackedAtTick)

Since == SubSeq(opsLog, ackedAtTick + 1, Len(opsLog))

\* the latest command of a log that concerns id ("none": the log has none)
LastOp(log, id) ==
    LET idx == {i \in 1..Len(log) : log[i].id = id}
    IN  IF idx = {} THEN "none" ELSE log[CHOOSE i \in idx : \A j \in idx : j <= i].op

\* id's latest answered command when the tick fired was /subscribe; an id the run
\* found in subscribers.json got there by a /subscribe answered earlier
SubscribedAtTick(id) ==
    \/ LastOp(AckedBefore, id) = "subscribe"
    \/ LastOp(AckedBefore, id) = "none" /\ id \in subs0

UnsubscribedAtTick(id) == LastOp(AckedBefore, id) = "unsubscribe"

\* C20: with the commands handled one at a time while ticks fire at any moment:
\* an id that was subscribed when a tick fired, and has sent no /unsubscribe
\* since, is among the recipients attempted if the tick produced BUY or SELL; an
\* id that was unsubscribed when the tick fired, and has sent no /subscribe
\* since, is not attempted by that tick.
MembershipDecidesDelivery ==
    /\ (TickDone /\ Actionable(sig[Job].side)) =>
        \A id \in ChatIds :
            (SubscribedAtTick(id) /\ LastOp(Since, id) = "none") => id \in Attempted
    /\ ticks > 0 =>
        \A id \in ChatIds :
            (UnsubscribedAtTick(id) /\ LastOp(Since, id) = "none") => id \notin Attempted

====
